---- MODULE Spec2Model ----
(***************************************************************************)
(* Model of the log viewer component of src/src/App.jsx (the component     *)
(* that starts at line 167): the WebSocket connection lifecycle of the     *)
(* effect at lines 186-344, the frame handler ws.onmessage with the log    *)
(* store (logs, logCounterRef), clearLogs and the derived filter views.    *)
(*                                                                         *)
(* The host is a single-threaded event loop: every handler runs to         *)
(* completion, so each handler is one action.  The platform (WebSocket,    *)
(* setTimeout) is modelled by what it may deliver: a socket's open, error, *)
(* message and close events and a timer's firing.                          *)
(*                                                                         *)
(* The effect may be run again after its cleanup with the component's      *)
(* state and refs kept (React StrictMode, the case the comment at line 187 *)
(* names); every run of the effect has its own isCleanedUp flag, while     *)
(* wsRef, reconnectTimeoutRef, logCounterRef and the state hooks are       *)
(* shared by all runs.                                                     *)
(***************************************************************************)
EXTENDS Integers, Sequences, FiniteSets, TLC

VARIABLES
    logs,                 \* useState([])               line 168
    isConnected,          \* useState(false)            line 169
    connectionStatus,     \* useState('Disconnecting...') line 170
    filterLevel,          \* useState('ALL')            line 171
    wsRef,                \* useRef(null): 0 is null, else an index of sockets
    reconnectTimeoutRef,  \* useRef(null): 0 is null, else a timer id
    logCounterRef,        \* useRef(0)                  line 175
    isCleanedUp,          \* one flag per run of the effect (line 188)
    cleanupRan,           \* per run of the effect: has React called its cleanup
    sockets,              \* every WebSocket created so far (line 199), with its
                          \* readyState and which of its events were delivered
    timers                \* every timer armed so far (line 319); the id is the index

vars == <<logs, isConnected, connectionStatus, filterLevel, wsRef,
          reconnectTimeoutRef, logCounterRef, isCleanedUp, cleanupRan,
          sockets, timers>>

storeVars == <<logs, logCounterRef, filterLevel>>
connVars == <<isConnected, connectionStatus, wsRef, reconnectTimeoutRef,
              isCleanedUp, cleanupRan, sockets, timers>>

\* ------------------------------------------------------------------ bounds
MaxMounts == 2      \* runs of the effect
MaxSockets == 3     \* WebSockets created in one behaviour
MaxCounter == 3     \* cap of logCounterRef
MaxBatch == 2       \* entries of a HISTORY list
MaxText == 2        \* characters of a HISTORY string payload

\* ------------------------------------------------------ values of a frame
\* An optional property of a decoded object: None when the property is absent
\* (undefined), Some(v) when it is present with value v.
None == <<>>
Some(v) == <<v>>

\* Text is a sequence of one-character strings.  Timestamps and levels are
\* strings.
Now == "now"                      \* new Date().toLocaleTimeString()
Stamp == "12:00:00"
Hi == <<"h", "i">>
JsonText == <<"{json}">>          \* JSON.stringify(data), line 278
EntryText == <<"{entry}">>        \* an entry object used as the message, line 241

\* JavaScript truthiness of an optional string: undefined and '' are falsy.
Truthy(o) == o # None /\ o[1] # ""
\* The same of an optional text.
TruthyText(o) == o # None /\ o[1] # <<>>

\* a || d for an optional string a, and for an optional text a.
OrElse(o, d) == IF Truthy(o) THEN o[1] ELSE d
OrElseText(o, d) == IF TruthyText(o) THEN o[1] ELSE d

\* x !== undefined ? x : true   (lines 242, 259, 279, 295)
StructuredFlag(o) == IF o # None THEN o[1] ELSE TRUE

\* String.prototype.toUpperCase on the level strings of the model.
toUpperCase(l) ==
    CASE l = "info" -> "INFO"
      [] l = "error" -> "ERROR"
      [] l = "all" -> "ALL"
      [] OTHER -> l

\* ------------------------------------------------- HISTORY string payload
Whitespace == {" ", "\n"}

\* String.prototype.split('\n'): the pieces between the newlines.
RECURSIVE SplitFrom(_, _, _)
SplitFrom(text, i, cur) ==
    IF i > Len(text) THEN <<cur>>
    ELSE IF text[i] = "\n" THEN <<cur>> \o SplitFrom(text, i + 1, <<>>)
    ELSE SplitFrom(text, i + 1, Append(cur, text[i]))

split(text) == SplitFrom(text, 1, <<>>)

\* String.prototype.trim(): without the leading and trailing whitespace.
RECURSIVE TrimLeft(_)
TrimLeft(line) ==
    IF line # <<>> /\ Head(line) \in Whitespace THEN TrimLeft(Tail(line)) ELSE line

RECURSIVE TrimRight(_)
TrimRight(line) ==
    IF line # <<>> /\ line[Len(line)] \in Whitespace
    THEN TrimRight(SubSeq(line, 1, Len(line) - 1))
    ELSE line

trim(line) == TrimRight(TrimLeft(line))

\* An entry of a HISTORY list: a decoded object, a string or null.
ObjectEntry(ts, lvl, msg, structured) ==
    [kind |-> "object", timestamp |-> ts, level |-> lvl, message |-> msg,
     isStructured |-> structured, text |-> <<>>]
StringEntry(t) ==
    [kind |-> "string", timestamp |-> None, level |-> None, message |-> None,
     isStructured |-> None, text |-> t]
NullEntry ==
    [kind |-> "null", timestamp |-> None, level |-> None, message |-> None,
     isStructured |-> None, text |-> <<>>]

\* Lines 223-231: the non-blank lines of a string payload, as entries.
LinesToEntries(text) ==
    LET kept == SelectSeq(split(text), LAMBDA line : trim(line) # <<>>)
    IN  [i \in DOMAIN kept |->
            ObjectEntry(Some(Now), Some("INFO"), Some(kept[i]), Some(FALSE))]

\* Lines 217-232: the entries of the payload data.data.
historyLogs(payload) ==
    IF payload.kind = "array" THEN payload.items
    ELSE IF payload.kind = "string" THEN LinesToEntries(payload.text)
    ELSE <<>>

\* Lines 236-244: the record of entry log, numbered n.
HistoryRecord(log, n) ==
    [lineNumber |-> n,
     timestamp |-> OrElse(log.timestamp, Now),
     level |-> OrElse(log.level, "INFO"),
     message |-> IF TruthyText(log.message) THEN log.message[1]
                 ELSE IF log.kind = "string" THEN log.text
                 ELSE EntryText,
     isStructured |-> StructuredFlag(log.isStructured),
     isHistory |-> TRUE]

\* The map that numbers every batch from 1 (the index, not the counter).
processedHistory_FromOne(entries, counter) ==
    [i \in DOMAIN entries |-> HistoryRecord(entries[i], i)]

\* Lines 234-245: historyLogs.map numbers the entries from counter + 1 on.
processedHistory(entries, counter) ==
    [i \in DOMAIN entries |-> HistoryRecord(entries[i], counter + i)]

\* Reading a property of null throws a TypeError: the index of the first entry
\* at which the map callback throws, 0 when it never does.
FirstThrow(entries) ==
    LET bad == {i \in DOMAIN entries : entries[i].kind = "null"}
    IN  IF bad = {} THEN 0 ELSE CHOOSE i \in bad : \A j \in bad : i <= j

\* Lines 253-261: the record of a frame with timestamp, level and message.
StructuredRecord(data, n) ==
    [lineNumber |-> n,
     timestamp |-> data.timestamp[1],
     level |-> data.level[1],
     message |-> data.message[1],
     isStructured |-> StructuredFlag(data.isStructured),
     isHistory |-> FALSE]

\* Lines 273-281: the record of a frame of type log.
LogRecord(data, n) ==
    [lineNumber |-> n,
     timestamp |-> OrElse(data.timestamp, Now),
     level |-> OrElse(data.level, "INFO"),
     message |-> OrElseText(data.message, JsonText),
     isStructured |-> StructuredFlag(data.isStructured),
     isHistory |-> FALSE]

\* Lines 289-297: the record of a frame that only has a message.
FallbackRecord(data, n) ==
    [lineNumber |-> n,
     timestamp |-> OrElse(data.timestamp, Now),
     level |-> OrElse(data.level, "INFO"),
     message |-> data.message[1],
     isStructured |-> StructuredFlag(data.isStructured),
     isHistory |-> FALSE]

\* The classification whose last rule asks for a message property, empty or not.
Classify_HasMessage(f) ==
    IF f.json # "object" THEN "none"
    ELSE IF f.type = Some("HISTORY") THEN "history"
    ELSE IF Truthy(f.timestamp) /\ Truthy(f.level) /\ TruthyText(f.message)
         THEN "structured"
    ELSE IF f.type = Some("log") THEN "log"
    ELSE IF f.message # None THEN "fallback"
    ELSE "none"

\* The classification that takes a frame for HISTORY only when its payload is
\* a list or a string.
Classify_HistoryNeedsData(f) ==
    IF f.json # "object" THEN "none"
    ELSE IF f.type = Some("HISTORY") /\ f.data.kind \in {"array", "string"}
         THEN "history"
    ELSE IF Truthy(f.timestamp) /\ Truthy(f.level) /\ TruthyText(f.message)
         THEN "structured"
    ELSE IF f.type = Some("log") THEN "log"
    ELSE IF TruthyText(f.message) THEN "fallback"
    ELSE "none"

\* The branch of ws.onmessage a frame takes (lines 211-304).
Classify(f) ==
    IF f.json # "object" THEN "none"
    ELSE IF f.type = Some("HISTORY") THEN "history"
    ELSE IF Truthy(f.timestamp) /\ Truthy(f.level) /\ TruthyText(f.message)
         THEN "structured"
    ELSE IF f.type = Some("log") THEN "log"
    ELSE IF TruthyText(f.message) THEN "fallback"
    ELSE "none"

\* The updater that puts the new record first.
append_Prepend(prevLogs, newLog) == <<newLog>> \o prevLogs

\* The updater prevLogs => [...prevLogs, newLog] (lines 264-268, 284, 300).
append(prevLogs, newLog) == Append(prevLogs, newLog)

\* The handler whose HISTORY branch restarts the counter for the batch.
HandleFrame_ResetOnHistory(f, store, counter) ==
    LET branch == Classify(f)
    IN  CASE branch = "history" ->
               LET entries == historyLogs(f.data)
                   j == FirstThrow(entries)
               IN  IF j = 0
                   THEN [logs |-> processedHistory(entries, 0),
                         counter |-> Len(entries)]
                   ELSE [logs |-> store, counter |-> j]
          [] branch = "structured" ->
               [logs |-> Append(store, StructuredRecord(f, counter + 1)),
                counter |-> counter + 1]
          [] branch = "log" ->
               [logs |-> Append(store, LogRecord(f, counter + 1)),
                counter |-> counter + 1]
          [] branch = "fallback" ->
               [logs |-> Append(store, FallbackRecord(f, counter + 1)),
                counter |-> counter + 1]
          [] OTHER -> [logs |-> store, counter |-> counter]

\* ws.onmessage (lines 208-305) on store and counter: the store and counter
\* after the frame.  A frame that is not JSON makes JSON.parse throw, the
\* frame null makes data.type throw; both are caught at line 302.
HandleFrame(f, store, counter) ==
    LET branch == Classify(f)
    IN  CASE branch = "history" ->
               LET entries == historyLogs(f.data)
                   j == FirstThrow(entries)
               IN  IF j = 0
                   THEN [logs |-> processedHistory(entries, counter),
                         counter |-> counter + Len(entries)]
                   ELSE [logs |-> store, counter |-> counter + j]
          [] branch = "structured" ->
               [logs |-> append(store, StructuredRecord(f, counter + 1)),
                counter |-> counter + 1]
          [] branch = "log" ->
               [logs |-> append(store, LogRecord(f, counter + 1)),
                counter |-> counter + 1]
          [] branch = "fallback" ->
               [logs |-> append(store, FallbackRecord(f, counter + 1)),
                counter |-> counter + 1]
          [] OTHER -> [logs |-> store, counter |-> counter]

ws_onmessage(f) ==
    LET r == HandleFrame(f, logs, logCounterRef)
    IN  /\ logs' = r.logs
        /\ logCounterRef' = r.counter
        /\ UNCHANGED <<isConnected, connectionStatus, filterLevel>>

\* clearLogs without line 348 (the counter is kept).
clearLogs_KeepCounter ==
    /\ logs' = <<>>
    /\ logCounterRef' = logCounterRef

\* clearLogs (lines 346-349).
clearLogs ==
    /\ logs' = <<>>
    /\ logCounterRef' = 0

\* ---------------------------------------------------------- derived views
\* The filter that compares the level as stored, not upper-cased.
filteredLogsFor_NoUpper(store, token) ==
    IF token = "ALL"
    THEN store
    ELSE SelectSeq(store, LAMBDA log : log.level = token)

\* filteredLogs (lines 371-373) of a store under a filter token.
filteredLogsFor(store, token) ==
    IF token = "ALL"
    THEN store
    ELSE SelectSeq(store, LAMBDA log : toUpperCase(log.level) = token)

filteredLogs == filteredLogsFor(logs, filterLevel)

\* new Set(levels): the distinct elements in order of first insertion.
RECURSIVE SetOrder(_, _)
SetOrder(seen, rest) ==
    IF rest = <<>> THEN seen
    ELSE IF \E i \in DOMAIN seen : seen[i] = Head(rest)
         THEN SetOrder(seen, Tail(rest))
         ELSE SetOrder(Append(seen, Head(rest)), Tail(rest))

\* logLevels (line 376).
logLevels ==
    LET upper == [i \in DOMAIN logs |-> toUpperCase(logs[i].level)]
    IN  <<"ALL">> \o SetOrder(<<>>, SelectSeq(upper, LAMBDA l : l # ""))

\* ------------------------------------------------------- inbound frames
\* The payload data.data of a decoded object.
NoPayload == [kind |-> "undefined", items |-> <<>>, text |-> <<>>]
NumberPayload == [kind |-> "number", items |-> <<>>, text |-> <<>>]
ArrayPayload(items) == [kind |-> "array", items |-> items, text |-> <<>>]
StringPayload(text) == [kind |-> "string", items |-> <<>>, text |-> text]

\* A frame whose text decodes to an object with these properties.
ObjectFrame(ty, payload, ts, lvl, msg, structured) ==
    [json |-> "object", type |-> ty, data |-> payload, timestamp |-> ts,
     level |-> lvl, message |-> msg, isStructured |-> structured]
\* A frame that is not JSON, the frame null, and a frame that is a number.
OtherFrame(k) ==
    [json |-> k, type |-> None, data |-> NoPayload, timestamp |-> None,
     level |-> None, message |-> None, isStructured |-> None]

SeqsUpTo(S, n) == UNION {[1..k -> S] : k \in 0..n}

\* Entries a HISTORY list is drawn from; the well-formed ones are not null.
WellFormedEntries ==
    { ObjectEntry(Some(Stamp), Some("ERROR"), Some(Hi), None),
      ObjectEntry(None, Some("info"), None, Some(FALSE)),
      StringEntry(<<"a">>) }
Entries == WellFormedEntries \cup {NullEntry}

TextAlphabet == {"a", " ", "\n"}
\* Every short text, and the payload "a\nb\n\nc".
Texts == SeqsUpTo(TextAlphabet, MaxText) \cup {<<"a", "\n", "b", "\n", "\n", "c">>}

HistoryFrame(payload) == ObjectFrame(Some("HISTORY"), payload, None, None, None, None)

HistoryListFrames == {HistoryFrame(ArrayPayload(l)) : l \in SeqsUpTo(Entries, MaxBatch)}
HistoryTextFrames == {HistoryFrame(StringPayload(t)) : t \in Texts}
HistoryFrames ==
    HistoryListFrames \cup HistoryTextFrames
        \cup {HistoryFrame(NoPayload), HistoryFrame(NumberPayload)}

\* Frames that are not of type HISTORY.
SingleFrames ==
    { ObjectFrame(None, NoPayload, Some(Stamp), Some("error"), Some(Hi), None),
      ObjectFrame(Some("log"), NoPayload, Some(Stamp), Some("ERROR"), Some(Hi), Some(FALSE)),
      ObjectFrame(Some("log"), NoPayload, None, None, None, None),
      ObjectFrame(Some("log"), NoPayload, None, Some("error"), Some(Hi), None),
      ObjectFrame(None, NoPayload, None, None, Some(Hi), None),
      ObjectFrame(None, NoPayload, Some(Stamp), None, Some(Hi), Some(FALSE)) }
UnrecognizedFrames ==
    { ObjectFrame(None, NoPayload, Some(Stamp), Some("error"), None, None),
      ObjectFrame(Some("other"), NumberPayload, None, None, Some(<<>>), None),
      OtherFrame("invalid"), OtherFrame("null"), OtherFrame("number") }

Frames == HistoryFrames \cup SingleFrames \cup UnrecognizedFrames

\* The frames delivered while the whole connection lifecycle is explored.
CoreFrames ==
    { HistoryFrame(ArrayPayload(<<ObjectEntry(None, Some("info"), Some(Hi), None),
                                  StringEntry(<<"a">>)>>)),
      HistoryFrame(ArrayPayload(<<NullEntry>>)),
      HistoryFrame(NoPayload),
      ObjectFrame(Some("log"), NoPayload, None, Some("error"), Some(Hi), None),
      OtherFrame("invalid") }

\* ------------------------------------------------------- platform: sockets
\* WebSocket.close(): a connecting or open socket starts closing; its close
\* event is delivered later.  On a closing or closed socket it does nothing.
\* A socket is CLOSED from the task on that delivers its close event; when the
\* connection failed, the same task first delivers the error event, so that
\* ws.onerror already reads CLOSED and ws.onclose runs right after it.
SocketClose(socks, s) ==
    IF socks[s].readyState \in {"CONNECTING", "OPEN"}
    THEN [socks EXCEPT ![s].readyState = "CLOSING"]
    ELSE socks

\* clearTimeout(id): a pending timer will never fire; otherwise no effect.
ClearTimeout(tms, t) ==
    IF tms[t].state = "pending"
    THEN [tms EXCEPT ![t].state = "cancelled"]
    ELSE tms

Live(s) == sockets[s].readyState \in {"CONNECTING", "OPEN"}
LiveSockets == {s \in DOMAIN sockets : Live(s)}
PendingTimers == {t \in DOMAIN timers : timers[t].state = "pending"}
OwnedSockets(e) == {s \in DOMAIN sockets : sockets[s].owner = e}

\* The sockets in the middle of the task that closes them: the error event was
\* delivered, the close event comes next, before anything else runs.
Dispatching == {s \in DOMAIN sockets : sockets[s].failed /\ ~sockets[s].closeFired}
Idle == Dispatching = {}

\* The run of the effect that is current (0 before the first run), and whether
\* the component is torn down: the cleanup of its current run has been called.
CurrentEffect == Len(cleanupRan)
TornDown == CurrentEffect > 0 /\ cleanupRan[CurrentEffect]

\* ------------------------------------------------------------ connection
\* connectWebSocket of effect run e, whose flag reads cleanedUp (lines 191-200).
connectWebSocket(e, cleanedUp) ==
    LET closed == IF wsRef # 0 THEN SocketClose(sockets, wsRef) ELSE sockets
    IN  IF cleanedUp
        THEN /\ sockets' = closed
             /\ wsRef' = wsRef
        ELSE /\ sockets' = Append(closed, [owner |-> e,
                                           readyState |-> "CONNECTING",
                                           failed |-> FALSE,
                                           closeFired |-> FALSE])
             /\ wsRef' = Len(sockets) + 1

\* The open handler that starts a connection with an empty store.
ws_onopen_ClearLogs ==
    /\ isConnected' = TRUE
    /\ connectionStatus' = "Connected"
    /\ logs' = <<>>
    /\ logCounterRef' = 0

\* ws.onopen (lines 202-206).
ws_onopen ==
    /\ isConnected' = TRUE
    /\ connectionStatus' = "Connected"
    /\ UNCHANGED <<logs, logCounterRef>>

\* The error handler that also schedules a reconnect, as ws.onclose does.
ws_onerror_Reconnect ==
    /\ connectionStatus' = "Error"
    /\ isConnected' = isConnected
    /\ timers' = Append(timers, [owner |-> Len(cleanupRan), state |-> "pending"])
    /\ reconnectTimeoutRef' = Len(timers) + 1

\* ws.onerror (lines 307-310).
ws_onerror ==
    /\ connectionStatus' = "Error"
    /\ UNCHANGED <<isConnected, timers, reconnectTimeoutRef>>

\* The close handler without the test of line 318.
ws_onclose_NoGuard(e) ==
    /\ isConnected' = FALSE
    /\ connectionStatus' = "Disconnected"
    /\ timers' = Append(timers, [owner |-> e, state |-> "pending"])
    /\ reconnectTimeoutRef' = Len(timers) + 1

\* ws.onclose of a socket created by effect run e (lines 312-324).
ws_onclose(e) ==
    /\ isConnected' = FALSE
    /\ connectionStatus' = "Disconnected"
    /\ IF ~isCleanedUp[e]
       THEN /\ timers' = Append(timers, [owner |-> e, state |-> "pending"])
            /\ reconnectTimeoutRef' = Len(timers) + 1
       ELSE UNCHANGED <<timers, reconnectTimeoutRef>>

\* The timer callback that only sets the status (no connectWebSocket()).
reconnectCallback_NoConnect(e) ==
    /\ connectionStatus' = "Reconnecting..."
    /\ UNCHANGED <<sockets, wsRef>>

\* The callback given to setTimeout by effect run e (lines 319-322).
reconnectCallback(e) ==
    /\ connectionStatus' = "Reconnecting..."
    /\ connectWebSocket(e, isCleanedUp[e])

\* The effect body: a fresh isCleanedUp, then connectWebSocket() (lines 186-327).
\* It runs at mount, and again only after the previous run was cleaned up.
Mount ==
    /\ Idle
    /\ CurrentEffect < MaxMounts
    /\ Len(sockets) < MaxSockets
    /\ CurrentEffect = 0 \/ TornDown
    /\ cleanupRan' = Append(cleanupRan, FALSE)
    /\ isCleanedUp' = Append(isCleanedUp, FALSE)
    /\ connectWebSocket(CurrentEffect + 1, FALSE)
    /\ UNCHANGED <<logs, isConnected, connectionStatus, filterLevel,
                   reconnectTimeoutRef, logCounterRef, timers>>

\* The cleanup that forgets line 331 (the flag is never set).
cleanup_NoFlag(e) ==
    /\ isCleanedUp' = isCleanedUp
    /\ timers' = IF reconnectTimeoutRef # 0
                 THEN ClearTimeout(timers, reconnectTimeoutRef)
                 ELSE timers
    /\ IF wsRef # 0
       THEN /\ sockets' = SocketClose(sockets, wsRef)
            /\ wsRef' = 0
       ELSE UNCHANGED <<sockets, wsRef>>
    /\ UNCHANGED reconnectTimeoutRef

\* The cleanup that forgets line 340 (the socket is dropped, not closed).
cleanup_NoClose(e) ==
    /\ isCleanedUp' = [isCleanedUp EXCEPT ![e] = TRUE]
    /\ timers' = IF reconnectTimeoutRef # 0
                 THEN ClearTimeout(timers, reconnectTimeoutRef)
                 ELSE timers
    /\ wsRef' = 0
    /\ UNCHANGED <<sockets, reconnectTimeoutRef>>

\* The cleanup that forgets lines 334-336 (the timer is not cleared).
cleanup_NoClearTimeout(e) ==
    /\ isCleanedUp' = [isCleanedUp EXCEPT ![e] = TRUE]
    /\ timers' = timers
    /\ IF wsRef # 0
       THEN /\ sockets' = SocketClose(sockets, wsRef)
            /\ wsRef' = 0
       ELSE UNCHANGED <<sockets, wsRef>>
    /\ UNCHANGED reconnectTimeoutRef

\* The cleanup that forgets line 341 (wsRef keeps the closed socket).
cleanup_NoNull(e) ==
    /\ isCleanedUp' = [isCleanedUp EXCEPT ![e] = TRUE]
    /\ timers' = IF reconnectTimeoutRef # 0
                 THEN ClearTimeout(timers, reconnectTimeoutRef)
                 ELSE timers
    /\ IF wsRef # 0
       THEN /\ sockets' = SocketClose(sockets, wsRef)
            /\ wsRef' = wsRef
       ELSE UNCHANGED <<sockets, wsRef>>
    /\ UNCHANGED reconnectTimeoutRef

\* The cleanup returned by the effect (lines 330-343).
cleanup(e) ==
    /\ isCleanedUp' = [isCleanedUp EXCEPT ![e] = TRUE]
    /\ timers' = IF reconnectTimeoutRef # 0
                 THEN ClearTimeout(timers, reconnectTimeoutRef)
                 ELSE timers
    /\ IF wsRef # 0
       THEN /\ sockets' = SocketClose(sockets, wsRef)
            /\ wsRef' = 0
       ELSE UNCHANGED <<sockets, wsRef>>
    /\ UNCHANGED reconnectTimeoutRef

\* React calls the cleanup of the current run, once.
Cleanup ==
    /\ Idle
    /\ CurrentEffect > 0
    /\ ~cleanupRan[CurrentEffect]
    /\ cleanupRan' = [cleanupRan EXCEPT ![CurrentEffect] = TRUE]
    /\ cleanup(CurrentEffect)
    /\ UNCHANGED <<logs, isConnected, connectionStatus, filterLevel, logCounterRef>>

\* The platform delivers the open event of socket s.
OpenSignal(s) ==
    /\ Idle
    /\ sockets[s].readyState = "CONNECTING"
    /\ sockets' = [sockets EXCEPT ![s].readyState = "OPEN"]
    /\ ws_onopen
    /\ UNCHANGED <<filterLevel, wsRef, reconnectTimeoutRef, isCleanedUp,
                   cleanupRan, timers>>

\* The platform delivers the error event of socket s (the connection failed, or
\* close() was called before it was established): the socket is CLOSED when
\* ws.onerror runs, and its close event follows in the same task.
ErrorSignal(s) ==
    /\ Idle
    /\ sockets[s].readyState # "CLOSED"
    /\ sockets' = [sockets EXCEPT ![s].failed = TRUE, ![s].readyState = "CLOSED"]
    /\ ws_onerror
    /\ UNCHANGED <<logs, filterLevel, wsRef, logCounterRef, isCleanedUp, cleanupRan>>

\* The platform delivers the close event of socket s (once per socket): right
\* after its error event, or on its own when the connection ended without one.
CloseSignal(s) ==
    /\ Dispatching \subseteq {s}
    /\ ~sockets[s].closeFired
    /\ sockets' = [sockets EXCEPT ![s].readyState = "CLOSED", ![s].closeFired = TRUE]
    /\ ws_onclose(sockets[s].owner)
    /\ UNCHANGED <<logs, filterLevel, wsRef, logCounterRef, isCleanedUp, cleanupRan>>

\* A pending timer fires (the 3000 ms of line 322 have elapsed).
TimerFires(t) ==
    /\ Idle
    /\ timers[t].state = "pending"
    /\ Len(sockets) < MaxSockets
    /\ timers' = [timers EXCEPT ![t].state = "fired"]
    /\ reconnectCallback(timers[t].owner)
    /\ UNCHANGED <<logs, isConnected, filterLevel, reconnectTimeoutRef,
                   logCounterRef, isCleanedUp, cleanupRan>>

\* The platform delivers frame f on the open socket s.
MessageSignal(s, f) ==
    /\ Idle
    /\ sockets[s].readyState = "OPEN"
    /\ ws_onmessage(f)
    /\ logCounterRef' <= MaxCounter
    /\ UNCHANGED <<wsRef, reconnectTimeoutRef, isCleanedUp, cleanupRan,
                   sockets, timers>>

\* The "Clear Logs" button (line 402).
ClearClick ==
    /\ Idle
    /\ clearLogs
    /\ UNCHANGED <<isConnected, connectionStatus, filterLevel, wsRef,
                   reconnectTimeoutRef, isCleanedUp, cleanupRan, sockets, timers>>

\* The filter select (lines 390-399): its options are logLevels.
SetFilter(level) ==
    /\ Idle
    /\ filterLevel' = level
    /\ UNCHANGED <<logs, isConnected, connectionStatus, wsRef, reconnectTimeoutRef,
                   logCounterRef, isCleanedUp, cleanupRan, sockets, timers>>

Init ==
    /\ logs = <<>>
    /\ isConnected = FALSE
    /\ connectionStatus = "Disconnecting..."
    /\ filterLevel = "ALL"
    /\ wsRef = 0
    /\ reconnectTimeoutRef = 0
    /\ logCounterRef = 0
    /\ isCleanedUp = <<>>
    /\ cleanupRan = <<>>
    /\ sockets = <<>>
    /\ timers = <<>>

Next ==
    \/ Mount
    \/ Cleanup
    \/ \E s \in DOMAIN sockets : OpenSignal(s)
    \/ \E s \in DOMAIN sockets : ErrorSignal(s)
    \/ \E s \in DOMAIN sockets : CloseSignal(s)
    \/ \E t \in DOMAIN timers : TimerFires(t)
    \/ \E s \in DOMAIN sockets : \E f \in CoreFrames : MessageSignal(s, f)
    \/ ClearClick
    \/ \E i \in DOMAIN logLevels : SetFilter(logLevels[i])

\* The whole component, with a few frames.
Spec == Init /\ [][Next]_vars

\* The component while its connection stays up, with every frame of Frames.
NextStore ==
    \/ Mount
    \/ \E s \in DOMAIN sockets : OpenSignal(s)
    \/ \E s \in DOMAIN sockets : \E f \in Frames : MessageSignal(s, f)
    \/ ClearClick
    \/ \E i \in DOMAIN logLevels : SetFilter(logLevels[i])

SpecStore == Init /\ [][NextStore]_vars

\* The connection lifecycle alone (frames, the clear button and the filter
\* leave every connection variable unchanged), under the scheduling of the
\* event loop: a timer that stays pending is eventually run, and the close
\* event of a failed socket is delivered in the task of its error event.
NextConn ==
    \/ Mount
    \/ Cleanup
    \/ \E s \in DOMAIN sockets : OpenSignal(s)
    \/ \E s \in DOMAIN sockets : ErrorSignal(s)
    \/ \E s \in DOMAIN sockets : CloseSignal(s)
    \/ \E t \in DOMAIN timers : TimerFires(t)

SpecLive ==
    /\ Init
    /\ [][NextConn]_vars
    /\ WF_vars(\E t \in DOMAIN timers : TimerFires(t))
    /\ WF_vars(\E s \in Dispatching : CloseSignal(s))

\* ------------------------------------------------------------------ claims
OwnedTimers(e) == {t \in DOMAIN timers : timers[t].owner = e}
ClosedSockets(e) == {s \in OwnedSockets(e) : sockets[s].closeFired}
\* A close event of a socket of run e was handled after the cleanup of e: it
\* armed no timer.
ClosedAfterCleanup(e) ==
    cleanupRan[e] /\ Cardinality(ClosedSockets(e)) > Cardinality(OwnedTimers(e))
CancelledTimers(e) == {t \in OwnedTimers(e) : timers[t].state = "cancelled"}

\* C1: once the cleanup of a run of the effect has been called, no socket is
\* created on behalf of that run any more, whatever is delivered afterwards
\* (close events, timers), and while the component is torn down no socket is
\* created at all.
C1_NoConnectAfterTeardown ==
    [][ /\ \A e \in DOMAIN cleanupRan :
              cleanupRan[e] => OwnedSockets(e)' = OwnedSockets(e)
        /\ (TornDown /\ TornDown') => Len(sockets') = Len(sockets) ]_vars

\* C1 witness: one run was torn down while its reconnect timer was pending and
\* another had the close event of its socket delivered after its teardown.
C1_Witness ==
    /\ \E e \in DOMAIN cleanupRan : cleanupRan[e] /\ CancelledTimers(e) # {}
    /\ \E e \in DOMAIN cleanupRan : ClosedAfterCleanup(e)

\* C2: at most one socket is connecting or open, and a step that creates a
\* socket leaves the socket wsRef held before it not connecting and not open.
C2_OneLiveSocket ==
    /\ [](Cardinality(LiveSockets) <= 1)
    /\ [][ Len(sockets') > Len(sockets) =>
               (wsRef # 0 => sockets'[wsRef].readyState \in {"CLOSING", "CLOSED"}) ]_vars

\* C2 witness: a second socket was opened while the first had not yet
\* delivered its close event.
C2_Witness ==
    /\ Len(sockets) >= 2
    /\ sockets[1].readyState = "CLOSING"
    /\ Live(2)

\* C3: at most one reconnect timer is pending, and a step that arms a timer
\* starts from a state with no pending timer.
C3_OnePendingTimer ==
    /\ [](Cardinality(PendingTimers) <= 1)
    /\ [][ Len(timers') > Len(timers) => PendingTimers = {} ]_vars

\* C3 witness: a timer is pending after an earlier one has fired.
C3_Witness ==
    /\ Cardinality(PendingTimers) = 1
    /\ \E t \in DOMAIN timers : timers[t].state = "fired"

\* C7 (as claimed): while the component is torn down the connection status
\* does not change.
C7_ClosedIsTerminal ==
    [][ TornDown => connectionStatus' = connectionStatus ]_vars

\* C9 (as claimed): after teardown nothing is pending or live and both the
\* socket reference and the timer reference are null.
C9_BothRefsNull ==
    TornDown => /\ PendingTimers = {}
                /\ LiveSockets = {}
                /\ wsRef = 0
                /\ reconnectTimeoutRef = 0

\* C9 (amended): after teardown no timer is pending, no socket is connecting
\* or open and the socket reference is null; the cleanup leaves the timer
\* reference as it was.
C9_TeardownReleases ==
    /\ [](TornDown => PendingTimers = {} /\ LiveSockets = {} /\ wsRef = 0)
    /\ [][ (\E e \in DOMAIN cleanupRan : ~cleanupRan[e] /\ cleanupRan'[e])
               => reconnectTimeoutRef' = reconnectTimeoutRef ]_vars

\* C9 witness: torn down, the timer reference still holding the timer the
\* cleanup cancelled, while a socket closed by a cleanup has yet to deliver
\* its close event.
C9_Witness ==
    /\ TornDown
    /\ reconnectTimeoutRef # 0
    /\ timers[reconnectTimeoutRef].state = "cancelled"
    /\ \E s \in DOMAIN sockets : sockets[s].readyState = "CLOSING"

\* C10: no timer of a run is pending once the cleanup of that run has been
\* called (a pending one is cancelled by it and none is armed afterwards), a
\* timer is cancelled only in the step that calls its run's cleanup, and a
\* cancelled timer stays cancelled.
C10_NoTimerAfterTeardown ==
    /\ [](\A t \in DOMAIN timers :
              cleanupRan[timers[t].owner] => timers[t].state # "pending")
    /\ [][ \A t \in DOMAIN timers :
              /\ (timers[t].state # "cancelled" /\ timers'[t].state = "cancelled")
                    => (~cleanupRan[timers[t].owner] /\ cleanupRan'[timers[t].owner])
              /\ timers[t].state = "cancelled" => timers'[t].state = "cancelled" ]_vars

\* C10 witness: the close event of a torn-down socket has been delivered, and
\* a timer that was pending at a teardown is cancelled.
C10_Witness ==
    /\ TornDown
    /\ ClosedAfterCleanup(CurrentEffect)
    /\ \E t \in DOMAIN timers : timers[t].state = "cancelled"

\* The n-th smallest element of a finite set of numbers.
Nth(K, n) == CHOOSE i \in K : Cardinality({j \in K : j < i}) = n - 1

\* The lines of a text, stated by position: a line starts at 1 or after a
\* newline and ends before the next newline or at the end of the text.
LineStarts(text) == {a \in 1..(Len(text) + 1) : a = 1 \/ text[a - 1] = "\n"}
LineEnd(text, a) ==
    CHOOSE b \in (a - 1)..Len(text) :
        /\ \A i \in a..b : text[i] # "\n"
        /\ b = Len(text) \/ text[b + 1] = "\n"
NonBlankStarts(text) ==
    {a \in LineStarts(text) : \E i \in a..LineEnd(text, a) : text[i] \notin Whitespace}

\* What a well-formed HISTORY payload carries: the message of each entry, in
\* payload order (FALSE where the entry has no message of its own).
Carried(payload) ==
    IF payload.kind = "string"
    THEN LET K == NonBlankStarts(payload.text)
         IN  [n \in 1..Cardinality(K) |->
                 <<SubSeq(payload.text, Nth(K, n), LineEnd(payload.text, Nth(K, n)))>>]
    ELSE [i \in DOMAIN payload.items |->
             IF payload.items[i].kind = "string" THEN <<payload.items[i].text>>
             ELSE payload.items[i].message]

WellFormedHistoryFrames ==
    {HistoryFrame(ArrayPayload(l)) : l \in SeqsUpTo(WellFormedEntries, MaxBatch)}
        \cup HistoryTextFrames

\* C4: whatever the store and the counter k, a HISTORY frame carrying N
\* well-formed entries leaves exactly N records, in payload order, numbered
\* k+1 .. k+N, all with isHistory, and the counter at k+N.
C4_HistoryBatch ==
    \A f \in WellFormedHistoryFrames :
        LET r == HandleFrame(f, logs, logCounterRef)
            c == Carried(f.data)
            N == Len(c)
        IN  /\ Len(r.logs) = N
            /\ r.counter = logCounterRef + N
            /\ \A i \in 1..N :
                  /\ r.logs[i].lineNumber = logCounterRef + i
                  /\ r.logs[i].isHistory
                  /\ c[i] # None => r.logs[i].message = c[i][1]

\* C4 witness: the store holds a batch of two history records that was
\* numbered from a counter above zero.
C4_Witness ==
    /\ Len(logs) = 2
    /\ \A i \in DOMAIN logs : logs[i].isHistory
    /\ logs[1].lineNumber > 1
    /\ logs[2].lineNumber = logCounterRef

\* The frames of CoreFrames that append no single record: HISTORY frames and
\* the frame that does not decode.
BetweenFrames == {h \in CoreFrames : Classify(h) \in {"history", "none"}}

\* C5 (as claimed): after a step of clear(), whatever frame that appends no
\* single record is handled next (a HISTORY frame, a frame that does not
\* decode) or none at all, the record then appended by a non-history frame is
\* numbered 1.
C5_NextAppendIsOne ==
    [][ ClearClick =>
          \A f \in SingleFrames :
             /\ HandleFrame(f, logs', logCounterRef').logs[1].lineNumber = 1
             /\ \A h \in BetweenFrames :
                   LET r == HandleFrame(h, logs', logCounterRef')
                       q == HandleFrame(f, r.logs, r.counter)
                   IN  q.logs[Len(q.logs)].lineNumber = 1 ]_vars

\* C5 (amended): a step of clear() leaves the store and the displayed list
\* empty and the counter zero, and every non-history frame handled in the state
\* it leaves appends one record with lineNumber 1; when a HISTORY frame is
\* handled in between, the counter may move on from zero and the non-history
\* record is numbered one past it.
C5_ClearResets ==
    [][ ClearClick =>
          /\ logs' = <<>>
          /\ filteredLogs' = <<>>
          /\ logCounterRef' = 0
          /\ \A f \in SingleFrames :
                LET r == HandleFrame(f, logs', logCounterRef')
                IN  /\ Len(r.logs) = 1
                    /\ r.logs[1].lineNumber = 1
                    /\ ~r.logs[1].isHistory
          /\ \A h \in BetweenFrames : \A f \in SingleFrames :
                LET r == HandleFrame(h, logs', logCounterRef')
                    q == HandleFrame(f, r.logs, r.counter)
                IN  /\ Len(q.logs) = Len(r.logs) + 1
                    /\ q.logs[Len(q.logs)].lineNumber = r.counter + 1
                    /\ ~q.logs[Len(q.logs)].isHistory ]_vars

\* C5 witness: the store holds one non-history record numbered 1 whose level
\* is not the selected filter: the filter was chosen from an earlier store,
\* which was cleared before this record was appended.
C5_Witness ==
    /\ Len(logs) = 1
    /\ logs[1].lineNumber = 1
    /\ ~logs[1].isHistory
    /\ filterLevel # "ALL"
    /\ toUpperCase(logs[1].level) # filterLevel

\* C6: every stored lineNumber is at most the counter; a step that lowers the
\* counter is a clear() and sets it to zero; in any other step the records
\* numbered above the old counter are numbered up to the new counter and in
\* strictly increasing order.
C6_CounterMonotonic ==
    /\ [](\A i \in DOMAIN logs : logs[i].lineNumber <= logCounterRef)
    /\ [][ IF logCounterRef' < logCounterRef
           THEN ClearClick /\ logCounterRef' = 0
           ELSE \A i \in DOMAIN logs' :
                   logs'[i].lineNumber > logCounterRef =>
                      /\ logs'[i].lineNumber <= logCounterRef'
                      /\ \A j \in 1..(i - 1) :
                            logs'[j].lineNumber < logs'[i].lineNumber ]_vars

\* C6 witness: after a reconnect, a history batch of two was numbered on from
\* a counter above zero.
C6_Witness ==
    /\ Len(sockets) >= 2
    /\ Len(logs) = 2
    /\ logs[1].isHistory
    /\ logs[1].lineNumber = 2
    /\ logs[2].lineNumber = 3

\* The filter tokens the select can hold: "ALL" and upper-cased levels.
FilterTokens == {"ALL", "INFO", "ERROR", "DEBUG"}

\* C8: for every token X other than ALL the display list is the subsequence
\* of the store, in order, of the records whose upper-cased level is X
\* upper-cased; for ALL it is the store; and logLevels is "ALL" followed by
\* the distinct upper-cased levels in order of first appearance.
C8_FilterViews ==
    /\ filterLevel \in FilterTokens
    /\ \A X \in FilterTokens :
          LET shown == filteredLogsFor(logs, X)
              K == {i \in DOMAIN logs : toUpperCase(logs[i].level) = toUpperCase(X)}
          IN  IF X = "ALL" THEN shown = logs
              ELSE /\ Len(shown) = Cardinality(K)
                   /\ \A n \in 1..Len(shown) : shown[n] = logs[Nth(K, n)]
    /\ LET rest == Tail(logLevels)
           First(l) == Nth({i \in DOMAIN logs : toUpperCase(logs[i].level) = l}, 1)
       IN  /\ Head(logLevels) = "ALL"
           /\ \A a, b \in DOMAIN rest : a # b => rest[a] # rest[b]
           /\ {rest[a] : a \in DOMAIN rest}
                 = {toUpperCase(logs[i].level) : i \in DOMAIN logs}
           /\ \A a, b \in DOMAIN rest : a < b => First(rest[a]) < First(rest[b])

\* C8 witness: a filter other than ALL shows some but not all records, among
\* them one whose stored level is not upper-case.
C8_Witness ==
    /\ filterLevel # "ALL"
    /\ Len(filteredLogs) < Len(logs)
    /\ \E i \in DOMAIN filteredLogs : filteredLogs[i].level # filterLevel
    /\ Len(logLevels) = 3

FiredTimers == {t \in DOMAIN timers : timers[t].state = "fired"}

\* C11: while its run is not torn down, the close event of a socket sets the
\* status to Disconnected and arms one timer; a timer firing sets the status to
\* Reconnecting, creates exactly one socket and never fires again; a pending
\* timer is eventually fired unless its run is torn down; and between tasks
\* nothing but the bound on sockets keeps a pending timer from firing (no
\* retry limit).
C11_ReconnectCycle ==
    /\ [][ \A s \in DOMAIN sockets :
              (CloseSignal(s) /\ ~cleanupRan[sockets[s].owner]) =>
                  /\ connectionStatus' = "Disconnected"
                  /\ Len(timers') = Len(timers) + 1
                  /\ PendingTimers' = {Len(timers')} ]_vars
    /\ [][ \A t \in DOMAIN timers :
              /\ (timers[t].state = "pending" /\ timers'[t].state = "fired") =>
                    /\ connectionStatus' = "Reconnecting..."
                    /\ Len(sockets') = Len(sockets) + 1
                    /\ wsRef' = Len(sockets')
                    /\ sockets'[wsRef'].readyState = "CONNECTING"
              /\ timers[t].state = "fired" => timers'[t].state = "fired" ]_vars
    /\ [](\A t \in PendingTimers :
              (Idle /\ Len(sockets) < MaxSockets) => ENABLED TimerFires(t))
    /\ \A t \in 1..MaxSockets :
          (t \in PendingTimers /\ Len(sockets) < MaxSockets)
              ~> \/ t \in FiredTimers
                 \/ t \in DOMAIN timers /\ cleanupRan[timers[t].owner]

\* C11 witness: the cycle has run twice: two timers have fired and the second
\* has just set the status and opened the third socket.
C11_Witness ==
    /\ Cardinality(FiredTimers) = 2
    /\ connectionStatus = "Reconnecting..."
    /\ Len(sockets) = 3
    /\ ~TornDown

\* The sockets whose close event, and whose error event, this step delivers.
ClosedInStep == {s \in DOMAIN sockets : ~sockets[s].closeFired /\ sockets'[s].closeFired}
FailedInStep == {s \in DOMAIN sockets : ~sockets[s].failed /\ sockets'[s].failed}

\* C12: a step that delivers an error event sets the status to Error and the
\* handler changes nothing else: no socket is created or replaced, no close()
\* is called and no close event handled (the socket the event belongs to is
\* CLOSED by the platform, every other socket is as it was), no timer is armed
\* or cancelled, isConnected, the store, the counter and the filter stay; and
\* a timer is armed only in a step that delivers a close event.
C12_ErrorOnlySetsStatus ==
    /\ [][ FailedInStep # {} =>
              /\ connectionStatus' = "Error"
              /\ isConnected' = isConnected
              /\ Len(sockets') = Len(sockets)
              /\ \A s \in DOMAIN sockets \ FailedInStep : sockets'[s] = sockets[s]
              /\ ClosedInStep = {}
              /\ wsRef' = wsRef
              /\ timers' = timers
              /\ reconnectTimeoutRef' = reconnectTimeoutRef
              /\ UNCHANGED <<logs, logCounterRef, filterLevel, isCleanedUp>> ]_vars
    /\ [][ Len(timers') > Len(timers) => ClosedInStep # {} ]_vars

\* C12 witness: the error event of the socket that was open was delivered
\* while records were stored: the socket is still held, its close event is
\* yet to come, isConnected is still true and no timer is pending.
C12_Witness ==
    /\ connectionStatus = "Error"
    /\ isConnected
    /\ wsRef # 0
    /\ sockets[wsRef].failed
    /\ ~sockets[wsRef].closeFired
    /\ PendingTimers = {}
    /\ logs # <<>>

\* C13: whatever the store and the counter, a frame that is a single record
\* (timestamp, level and message; or type log; or a message) moves the counter
\* up by one and puts one record, numbered with the new counter and not
\* isHistory, after the records already stored, which stay as they were.
C13_SingleAppend ==
    \A f \in SingleFrames :
        LET r == HandleFrame(f, logs, logCounterRef)
        IN  /\ r.counter = logCounterRef + 1
            /\ Len(r.logs) = Len(logs) + 1
            /\ SubSeq(r.logs, 1, Len(logs)) = logs
            /\ r.logs[Len(r.logs)].lineNumber = r.counter
            /\ ~r.logs[Len(r.logs)].isHistory

\* C13 witness: a single record was appended after a history record: it is
\* last, numbered with the counter, and the history record is still first.
C13_Witness ==
    /\ Len(logs) = 2
    /\ logs[1].isHistory
    /\ ~logs[2].isHistory
    /\ logs[2].lineNumber = logCounterRef
    /\ logs[2].lineNumber = logs[1].lineNumber + 1

\* C14 (as claimed): handling a frame never leaves the counter advanced while
\* the store is as it was: a step that moves the counter up changes the store.
C14_FrameAtomic ==
    [][ logCounterRef' > logCounterRef => logs' # logs ]_vars

\* C15: a frame that decodes but is no HISTORY frame, has not all of timestamp,
\* level and message, is not of type log and has no message, and likewise a
\* frame that does not decode to an object, gives no record and leaves store
\* and counter as they are; and no frame changes the connection status or the
\* filter: the status changes only in a step of a socket or a timer, the
\* filter only in a step that leaves store, counter, sockets and timers alone.
C15_UnrecognizedIsNoOp ==
    /\ [](\A f \in UnrecognizedFrames :
             HandleFrame(f, logs, logCounterRef)
                 = [logs |-> logs, counter |-> logCounterRef])
    /\ [][ (connectionStatus' # connectionStatus \/ isConnected' # isConnected)
              => (sockets' # sockets \/ timers' # timers) ]_vars
    /\ [][ (logs' # logs \/ logCounterRef' > logCounterRef)
              => filterLevel' = filterLevel ]_vars

\* C15 witness: a socket is open, so frames are being delivered, records are
\* stored and a level is selected, and the unrecognized frames leave all of it.
C15_Witness ==
    /\ wsRef # 0 /\ sockets[wsRef].readyState = "OPEN" /\ ~sockets[wsRef].failed
    /\ connectionStatus = "Connected"
    /\ logs # <<>> /\ logCounterRef > 0
    /\ filterLevel # "ALL"
    /\ \A f \in UnrecognizedFrames : Classify(f) = "none"

\* C16: a step of the connection lifecycle (a socket is created, opens, fails
\* or closes, a timer is armed, fired or cancelled, the effect or its cleanup
\* runs) leaves the stored records and the counter as they are; and the counter
\* goes down only in a step that empties the store and sets it to 0 without
\* touching a socket or a timer, which is the clear action.
C16_LifecycleKeepsStore ==
    /\ [][ (sockets' # sockets \/ timers' # timers \/ cleanupRan' # cleanupRan
              \/ wsRef' # wsRef \/ isCleanedUp' # isCleanedUp)
              => UNCHANGED <<logs, logCounterRef>> ]_vars
    /\ [][ logCounterRef' < logCounterRef
              => /\ logCounterRef' = 0 /\ logs' = <<>>
                 /\ UNCHANGED <<sockets, timers, cleanupRan, wsRef>> ]_vars

\* C16 witness: the first socket is closed and the reconnect timer has fired,
\* the second socket is still connecting, and the records and the counter of
\* the first connection are still there.
C16_Witness ==
    /\ connectionStatus = "Reconnecting..."
    /\ wsRef = 2 /\ sockets[2].readyState = "CONNECTING"
    /\ sockets[1].readyState = "CLOSED"
    /\ Len(logs) = 2 /\ logs[1].lineNumber = 1 /\ logCounterRef = 2

\* C17 (as claimed): the stored records are numbered consecutively in store
\* order, and the last one, when there is one, carries the counter.
C17_ConsecutiveNumbers ==
    /\ \A i \in 1..(Len(logs) - 1) : logs[i + 1].lineNumber = logs[i].lineNumber + 1
    /\ logs # <<>> => logs[Len(logs)].lineNumber = logCounterRef

\* C18: a HISTORY frame without a payload, or with a payload that is neither a
\* list nor a string, replaces the store by the empty sequence and leaves the
\* counter as it is; a single record appended to the store so emptied is
\* numbered counter + 1.
C18_EmptyHistoryReplaces ==
    \A payload \in {NoPayload, NumberPayload} :
        LET r == HandleFrame(HistoryFrame(payload), logs, logCounterRef)
        IN  /\ r = [logs |-> <<>>, counter |-> logCounterRef]
            /\ \A f \in SingleFrames :
                   LET q == HandleFrame(f, r.logs, r.counter)
                   IN  /\ Len(q.logs) = 1
                       /\ q.logs[1].lineNumber = logCounterRef + 1

\* C18 witness: the store holds one record, not from a HISTORY frame, and it
\* is numbered 3: the store was emptied while the counter stayed at 2.
C18_Witness ==
    /\ Len(logs) = 1
    /\ ~logs[1].isHistory
    /\ logs[1].lineNumber = 3
    /\ logCounterRef = 3

\* C19 (as claimed): isConnected is false while a reconnect timer is pending,
\* and it is true only if the socket held in wsRef is open: its open event was
\* delivered, its close event was not.
C19_ConnectedMeansOpen ==
    /\ PendingTimers # {} => ~isConnected
    /\ isConnected => wsRef # 0 /\ sockets[wsRef].readyState = "OPEN"

\* C20 (as claimed): the filter token changes only in a step that leaves the
\* store, the counter, the sockets and the timers alone (the select), and in
\* every reachable state it is one of logLevels.
C20_FilterStaysAvailable ==
    /\ [][ filterLevel' # filterLevel
              => UNCHANGED <<logs, logCounterRef, sockets, timers>> ]_vars
    /\ [](\E i \in DOMAIN logLevels : logLevels[i] = filterLevel)
====
